---- MODULE Spec2Model ----
(***************************************************************************)
(* Visibility scan engine of ru.topomatic.rule.visibility.                 *)
(*                                                                         *)
(* Two diagnostic rules are modelled, each as the state machine of its     *)
(* execute() method:                                                       *)
(*   rule:visibility:alignment  (rules/alignment, path-to-path sweep)      *)
(*   rule:visibility:objects    (rules/objects,   path-to-object sweep)    *)
(*                                                                         *)
(* Stations are integers counted in units of 0.005 length units, so that   *)
(* the keyframe tolerance 0.01 of the source is KeyFrameTol = 2 units and  *)
(* a step of one unit is below the tolerance while a step of two is not.   *)
(* The geometry (world coordinates, distances, intersection of a sight     *)
(* line with a model) is supplied by the host; every query is made once,   *)
(* so its outcome is chosen when the query is made.                        *)
(*                                                                         *)
(* The utilities the rules are built on are modelled on their own, each    *)
(* with its specification:                                                 *)
(*   SpecWrapper   rules/alignmentWrapper  (AlignmentWrapper)              *)
(*   SpecSearch    utils/binarySearch      (binarySearch)                  *)
(*   SpecTriangle  utils/intersect         (segmentIntersectsTriangle)     *)
(*   SpecWalk      utils/intersect         (modelIntersectsSegment)        *)
(*   SpecFrustum   utils/frustum           (SegmentFrustum)                *)
(*   SpecCenter    rules/objects           (modelCenter)                   *)
(* Their geometry is exact: coordinates are whole grid units and the       *)
(* tolerances of the source are kept as fractions.                         *)
(* SpecSteps is the two sweeps again, of one path and with steps of any    *)
(* sign, under the fairness of a scan that goes on.                        *)
(***************************************************************************)
EXTENDS Integers, Sequences, FiniteSets, TLC

\* ---------------------------------------------------------------- bounds
MaxLength == 3            \* total length of the paths of the drawing
MaxPaths == 2             \* number of paths the alignment filter returns
MaxStep == 2              \* largest viewPointStep / objectStep
MaxPairLength == 2        \* objects rule: number of objects times total length
MaxLegs == 2              \* length of a wrapped path
MaxOffset == 1            \* largest offset asked of a wrapper
MaxArray == 3             \* length of the array searched
MaxValue == 3             \* largest element of the array searched
MaxSide == 2              \* triangle vertices: up to 3 MaxSide grid units
MaxReach == 2             \* segment ends: up to MaxReach units from the anchor
MaxMeshes == 2            \* meshes of the model walked
MaxCandidates == 2        \* triangles walkSegment offers per mesh
MaxPasses == 1            \* passes followed of a loop whose step is not positive

\* ------------------------------------------------------ program constants
YieldPeriodMs == 1000     \* Date.now() - t0 > 1000
KeyFrameTol == 2          \* 0.01 length units, in station units of 0.005
InvEPS == 1000            \* EPS = 1e-3
InvEPS2 == 10000000       \* EPS2 = 1e-7
Grid == 100               \* grid units to the length unit
NoRange == 0 - 1          \* rangeStart = -1, rangeEnd = -1
NoGeometry == 0 - 1       \* mesh.geometry === undefined

\* ------------------------------------------------------------ the drawing
Idle == "idle"                        \* a component no call has reached
NoObject == "none"                    \* the alignment rule tests no object
MainDoc == "main"                     \* drawing.layers.layer0.modelName
Docs == {"main", "ref"}               \* documents (modelName) of the layers
Layers == {"L1", "L2"}
Models == {"m1", "m2"}                \* the DwgModel3d entities
DrawingObjects == Models \cup {"e1"}  \* e1 is an entity of another type

ObjType(obj) == IF obj \in Models THEN "model3d" ELSE "polyline"
ObjLayer(obj) == IF obj = "m2" THEN "L2" ELSE "L1"

Steps == 1..MaxStep

\* the steps the property editor accepts: any finite number
StepsAnySign == (0 - 1)..MaxStep

\* the time one pass of the station loop takes, in milliseconds: a host fast
\* enough never to reach the yield period, and one reaching it every other pass
StationTimes == {0, 600}
Sides == {"LEFT", "RIGHT", "BOTH"}

\* the meshes a model may hold
MeshConfigs == {<<>>, <<NoGeometry>>, <<0>>, <<NoGeometry, 3>>}

\* the results of drawing.filterEntities(rule.objectFilter, ...), in the
\* order of the drawing
ObjectConfigs == {<<>>, <<"m1">>, <<"m1", "m2">>}

RECURSIVE SumLengths(_)
SumLengths(s) == IF s = <<>> THEN 0 ELSE Head(s).length + SumLengths(Tail(s))

PathRec == [length : 0..MaxLength, modelName : Docs]

\* the results of drawing.filterEntities(rule.alignmentFilter, ...): the
\* paths of the main document come first, then those of the other document;
\* an empty path (length 0) is swept alone
AlignmentConfigs ==
    { s \in UNION { [1..n -> PathRec] : n \in 0..MaxPaths } :
        /\ SumLengths(s) <= MaxLength
        /\ Len(s) > 1 => \A i \in 1..Len(s) : s[i].length > 0
        /\ \A i \in 1..Len(s), j \in 1..Len(s) :
              (i < j /\ s[j].modelName = MainDoc) => s[i].modelName = MainDoc }

VARIABLES
    sweep,            \* which rule the host executes
    host,             \* what the host has: model, cadview, drawing layer
    stationMs,        \* the time one pass of the station loop takes
    pc,               \* position in execute()
    rule,             \* the rule parameters
    alignments,       \* AlignmentWrapper[] (length, modelName)
    obstacleLayers,   \* drawing.filterLayers(rule.obstacleFilter)
    objects,          \* drawing.filterEntities(rule.objectFilter, ...)
    meshes,           \* per model: its meshes, each the number of vertex
                      \* indices of its geometry, or NoGeometry
    messages,         \* Record<string, Diagnostic[]>
    diagnostics,      \* the DiagnosticCollection
    a,                \* index of the alignment in progress
    o,                \* index of the object in progress
    station,          \* observer station
    objectStation,    \* target station / the object's station
    hasObstacles,
    rangeStart,
    rangeEnd,
    rangeKeyFrames,
    obstaclesAtStation, \* obstaclesAtStation / obstaclesAtRange
    now,              \* Date.now()
    t0,
    progress,         \* WorkerProgress
    violated,         \* history: <<object, alignment, station, target, obstacles>>
                      \* of the stations at which a violation was detected
    outOfView,        \* the gates of the station last tested (objects rule)
    yields,           \* history: number of suspensions
    cancelled,        \* the host has signalled cancellation
    probes,           \* history: the sight lines tested from the observer
                      \* station in progress, <<target, far, obstacles>>
    queries,          \* history: the queries the last step made of the path
                      \* in progress, <<query, station>>
    wrapper,          \* an AlignmentWrapper: alignment (WeakRef), direction, length
    returned,         \* the last query of the wrapper and what it returned
    search,           \* binarySearch: its arguments, its locals, its result
    triangle,         \* segmentIntersectsTriangle: its arguments and its result
    walk,             \* modelIntersectsSegment: the model, its locals, its result
    frustum,          \* a SegmentFrustum (_a, _b) and its last intersectSegment
    center            \* modelCenter: the model, its locals, target and its result

vars == <<sweep, host, stationMs, pc, rule, alignments, obstacleLayers, objects, meshes,
          messages, diagnostics, a, o, station, objectStation,
          hasObstacles, rangeStart, rangeEnd, rangeKeyFrames,
          obstaclesAtStation, now, t0, progress, violated, outOfView, yields,
          cancelled, probes, queries, wrapper, returned, search, triangle, walk, frustum,
          center>>

\* the utilities, which a run of execute() reaches only through the host
utils == <<wrapper, returned, search, triangle, walk, frustum, center>>

env == <<sweep, host, stationMs, rule, alignments, obstacleLayers, objects, meshes>>

\* ---------------------------------------------------------------- helpers
Abs(x) == IF x < 0 THEN 0 - x ELSE x

Length == IF a \in 1..Len(alignments) THEN alignments[a].length ELSE 0

ModelName == IF a \in 1..Len(alignments) THEN alignments[a].modelName ELSE MainDoc

\* AlignmentWrapper.toPK: the chainage label of a station
toPK(s) == s

\* messages[uri] = [...]
SetMessages(msgs, uri, list) ==
    [d \in (DOMAIN msgs) \cup {uri} |-> IF d = uri THEN list ELSE msgs[d]]

\* let collection = messages[modelName];
\* if (collection === undefined) messages[modelName] = collection = [];
Collection(msgs, uri) == IF uri \in DOMAIN msgs THEN msgs[uri] ELSE <<>>

\* collection.push(record)
PushFront(msgs, uri, record) == SetMessages(msgs, uri, <<record>> \o Collection(msgs, uri))

Push(msgs, uri, record) == SetMessages(msgs, uri, Append(Collection(msgs, uri), record))

Warning(text) == [severity |-> "Warning", message |-> text]

\* the record of a violation range of the path-to-path sweep; from and to
\* are the two chainages of its message, closedBy records which push made it
AlignmentDiagnostic(from, to, keyFrames, obstacles, closedBy) ==
    [severity |-> "Error", message |-> "range", alignment |-> a,
     from |-> toPK(from), to |-> toPK(to),
     keyFrames |-> keyFrames, obstacles |-> obstacles, closedBy |-> closedBy]

\* the record of a violation range of the path-to-object sweep
ObjectDiagnostic(from, to, start, end, obstacles, closedBy) ==
    [severity |-> "Error", message |-> "range", alignment |-> a,
     object |-> objects[o], from |-> toPK(from), to |-> toPK(to),
     rangeStart |-> start, rangeEnd |-> end,
     obstacles |-> obstacles, closedBy |-> closedBy]

\* if (rangeStart >= 0) collection.push(record), after the station loop
EmitFinalNever(msgs, start, record) == msgs

EmitFinal(msgs, start, record) ==
    IF start >= 0 THEN Push(msgs, ModelName, record) ELSE msgs

\* the predicate handed to drawingLayer.selectableObjects by the alignment rule
AlignmentObstacleAnyLayer(obj) == ~(ObjType(obj) # "model3d")

AlignmentObstacle(obj) ==
    ~(ObjType(obj) # "model3d" \/ ObjLayer(obj) \notin obstacleLayers)

\* obstaclesAtStation = new WeakSet<DwgModel3d>(), for the set in use so far
SameWeakSet(used) == used

NewWeakSet(used) == {}

\* Date.now() after one more pass of the station loop
Elapse == now' = now + stationMs

\* alignment.toWCS(viewPoint, [s, ...]); viewPoint[2] = alignment.elevationAt(s) + ...
PointQueries(s) == {<<"toWCS", s>>, <<"elevationAt", s>>}

\* the two chainages of the message of a record: alignment.toPK(from), alignment.toPK(to)
MessageQueries(from, to) == {<<"toPK", from>>, <<"toPK", to>>}

\* ------------------------------------------------------------------- Init
Init ==
    /\ sweep \in {"alignment", "objects"}
    /\ host \in {"ok", "noModel", "noCadview", "noDrawingLayer"}
    /\ stationMs \in StationTimes
    /\ pc = "execute"
    /\ rule \in [viewPointStep : Steps, objectStep : Steps, side : Sides]
    /\ alignments \in AlignmentConfigs
    /\ obstacleLayers \in SUBSET Layers
    /\ objects \in ObjectConfigs
    /\ meshes \in [Models -> MeshConfigs]
    \* the parameters a rule does not read are left at one value
    /\ sweep = "alignment" =>
          /\ rule.side = "BOTH"
          /\ objects = <<>>
          /\ meshes = [m \in Models |-> <<NoGeometry, 3>>]
    /\ sweep = "objects" =>
          /\ stationMs = 600
          /\ rule.objectStep = 1
          /\ obstacleLayers = {}
          /\ \A m \in Models :
                (\A i \in 1..Len(objects) : objects[i] # m) => meshes[m] = <<NoGeometry, 3>>
          /\ Len(objects) * SumLengths(alignments) <= MaxPairLength
    /\ host # "ok" =>
          /\ stationMs = 600
          /\ alignments = <<>>
          /\ obstacleLayers = {}
          /\ objects = <<>>
          /\ meshes = [m \in Models |-> <<NoGeometry, 3>>]
          /\ rule = [viewPointStep |-> 1, objectStep |-> 1, side |-> "BOTH"]
    /\ messages = <<>>
    /\ diagnostics = <<>>
    /\ a = 0
    /\ o = 0
    /\ station = 0
    /\ objectStation = 0
    /\ hasObstacles = FALSE
    /\ rangeStart = NoRange
    /\ rangeEnd = NoRange
    /\ rangeKeyFrames = <<>>
    /\ obstaclesAtStation = {}
    /\ now = 0
    /\ t0 = 0
    /\ progress = [indeterminate |-> TRUE, percents |-> <<0, 1>>, details |-> 0]
    /\ violated = {}
    /\ outOfView = FALSE
    /\ yields = 0
    /\ cancelled = FALSE
    /\ probes = <<>>
    /\ queries = {}
    /\ wrapper = Idle
    /\ returned = Idle
    /\ search = Idle
    /\ triangle = Idle
    /\ walk = Idle
    /\ frustum = Idle
    /\ center = Idle

\* ------------------------------------------- rule:visibility:alignment
\* execute(): the early returns, the filters, the obstacle-layer warning
AlignmentExecute ==
    /\ sweep = "alignment"
    /\ pc = "execute"
    /\ IF host # "ok"
       THEN /\ pc' = "returned"
            /\ UNCHANGED <<messages, t0, progress>>
       ELSE /\ messages' = IF Cardinality(obstacleLayers) = 0
                           THEN SetMessages(messages, MainDoc, <<Warning("no obstacle layers")>>)
                           ELSE messages
            /\ progress' = [progress EXCEPT !.indeterminate = FALSE]
            /\ t0' = now
            /\ pc' = "alignments"
    /\ queries' = {}
    /\ UNCHANGED <<env, utils, cancelled, probes, diagnostics, a, o, station, objectStation,
                   hasObstacles, rangeStart, rangeEnd, rangeKeyFrames,
                   obstaclesAtStation, now, violated, outOfView, yields>>

\* for (const alignment of alignments) { ... per-path state ... station = 0
AlignmentNext ==
    /\ sweep = "alignment"
    /\ pc = "alignments"
    /\ IF a < Len(alignments)
       THEN /\ a' = a + 1
            /\ messages' = SetMessages(messages, alignments[a + 1].modelName,
                               Collection(messages, alignments[a + 1].modelName))
            /\ rangeStart' = NoRange
            /\ rangeKeyFrames' = <<>>
            /\ obstaclesAtStation' = NewWeakSet(obstaclesAtStation)
            /\ station' = 0
            /\ pc' = "station"
       ELSE /\ pc' = "save"
            /\ UNCHANGED <<a, messages, rangeStart, rangeKeyFrames,
                           obstaclesAtStation, station>>
    /\ queries' = {}
    /\ UNCHANGED <<env, utils, cancelled, probes, diagnostics, o, objectStation, hasObstacles,
                   rangeEnd, now, t0, progress, violated, outOfView, yields>>

\* objectStation = station + rule.objectStep, the first target station
FirstTargetAtObserver(s) == s

FirstTarget(s) == s + rule.objectStep

\* if (Date.now() - t0 > 1000)
YieldNever == FALSE

YieldDue == now - t0 > YieldPeriodMs

\* the head of the station loop: the loop test, the yield test and the
\* start of the target loop
AlignmentStation ==
    /\ sweep = "alignment"
    /\ pc = "station"
    /\ IF station <= Length
       THEN IF YieldDue
            THEN /\ t0' = now
                 /\ progress' = [progress EXCEPT !.percents = <<station * 100, Length>>,
                                                 !.details = toPK(station)]
                 /\ yields' = yields + 1
                 /\ queries' = {<<"toPK", station>>}
                 /\ pc' = "suspended"
                 /\ UNCHANGED <<objectStation, hasObstacles>>
            ELSE /\ queries' = PointQueries(station)
                 /\ objectStation' = FirstTarget(station)
                 /\ hasObstacles' = FALSE
                 /\ pc' = "target"
                 /\ UNCHANGED <<t0, progress, yields>>
       ELSE /\ pc' = "final"
            /\ queries' = {}
            /\ UNCHANGED <<t0, progress, yields, objectStation, hasObstacles>>
    /\ UNCHANGED <<env, utils, cancelled, probes, messages, diagnostics, a, o, station,
                   rangeStart, rangeEnd, rangeKeyFrames, obstaclesAtStation,
                   now, violated, outOfView>>

\* await new Promise(resolve => setTimeout(resolve, 0)): the timer fires and
\* the body of the station loop goes on
AlignmentResume ==
    /\ sweep = "alignment"
    /\ pc = "suspended"
    /\ queries' = PointQueries(station)
    /\ objectStation' = FirstTarget(station)
    /\ hasObstacles' = FALSE
    /\ pc' = "target"
    /\ UNCHANGED <<env, utils, cancelled, probes, messages, diagnostics, a, o, station,
                   rangeStart, rangeEnd, rangeKeyFrames, obstaclesAtStation,
                   now, t0, progress, violated, outOfView, yields>>

\* the host signals cancellation; execute() is given no cancellation token
\* and reads no flag of progress, so the signal can only arrive while the
\* scan is suspended and nothing of the scan changes with it
HostCancel ==
    /\ sweep = "alignment"
    /\ pc = "suspended"
    /\ ~cancelled
    /\ cancelled' = TRUE
    /\ queries' = {}
    /\ UNCHANGED <<env, utils, probes, messages, diagnostics, a, o, station, objectStation,
                   hasObstacles, rangeStart, rangeEnd, rangeKeyFrames,
                   obstaclesAtStation, now, t0, progress, violated, outOfView,
                   yields, pc>>

\* a loop whose step is not positive is followed for MaxPasses passes
PassesFollowed == rule.viewPointStep <= 0 => now < MaxPasses * stationMs

ProbesFollowed == rule.objectStep <= 0 => Len(probes) < MaxPasses

\* objectStation <= length, the test of the target-station loop
TargetInPathOrNext(t) == t <= Length + rule.objectStep

TargetInPath(t) == t <= Length

\* one pass of the target-station loop
AlignmentTarget ==
    /\ sweep = "alignment"
    /\ pc = "target"
    /\ IF TargetInPath(objectStation)
       THEN \E far \in BOOLEAN, candidates \in SUBSET DrawingObjects :
              LET obstacles == {obj \in candidates : AlignmentObstacle(obj)} IN
              /\ queries' = PointQueries(objectStation)
              /\ IF far
                 THEN /\ pc' = "fold"
                      /\ probes' = Append(probes, <<objectStation, TRUE, {}>>)
                      /\ UNCHANGED <<objectStation, hasObstacles, obstaclesAtStation>>
                 ELSE IF obstacles # {}
                 THEN /\ hasObstacles' = TRUE
                      /\ obstaclesAtStation' = obstaclesAtStation \cup obstacles
                      /\ pc' = "fold"
                      /\ probes' = Append(probes, <<objectStation, FALSE, candidates>>)
                      /\ UNCHANGED objectStation
                 ELSE /\ ProbesFollowed
                      /\ objectStation' = objectStation + rule.objectStep
                      /\ probes' = Append(probes, <<objectStation, FALSE, candidates>>)
                      /\ UNCHANGED <<pc, hasObstacles, obstaclesAtStation>>
       ELSE /\ pc' = "fold"
            /\ queries' = {}
            /\ UNCHANGED <<objectStation, hasObstacles, obstaclesAtStation, probes>>
    /\ UNCHANGED <<env, utils, cancelled, messages, diagnostics, a, o, station,
                   rangeStart, rangeEnd, rangeKeyFrames, now, t0, progress,
                   violated, outOfView, yields>>

\* rangeStart = -1, after the range was pushed
RangeKept(start) == start

RangeReset(start) == NoRange

\* if (rangeStart < 0) rangeStart = station
RangeStartFirst(start, s) == IF start < 0 THEN 0 ELSE start

RangeStart(start, s) == IF start < 0 THEN s ELSE start

\* the keyframe append / merge of the open range
KeyFramesStaleStation(frames, s, target) ==
    IF Len(frames) > 1 /\ Abs(frames[Len(frames)][2] - frames[Len(frames) - 1][2]) < KeyFrameTol
    THEN [frames EXCEPT ![Len(frames)] = <<frames[Len(frames)][1], target>>]
    ELSE Append(frames, <<s, target>>)

KeyFramesAppend(frames, s, target) == Append(frames, <<s, target>>)

KeyFrames(frames, s, target) ==
    IF Len(frames) > 1 /\ Abs(frames[Len(frames)][2] - frames[Len(frames) - 1][2]) < KeyFrameTol
    THEN [frames EXCEPT ![Len(frames)] = <<s, target>>]
    ELSE Append(frames, <<s, target>>)

\* station += rule.viewPointStep
NextStationByObjectStep(s) == s + rule.objectStep

NextStation(s) == s + rule.viewPointStep

\* the range accumulation after the target loop, and station += viewPointStep;
\* the clock has advanced by the time the pass took, and objectStation, a
\* variable of the loop body, is gone
AlignmentFold ==
    /\ sweep = "alignment"
    /\ pc = "fold"
    /\ IF ~hasObstacles
       THEN IF rangeStart >= 0
            THEN /\ messages' = Push(messages, ModelName,
                        AlignmentDiagnostic(rangeStart, station, rangeKeyFrames,
                                            obstaclesAtStation, "station"))
                 /\ queries' = MessageQueries(rangeStart, station)
                 /\ rangeStart' = RangeReset(rangeStart)
                 /\ rangeKeyFrames' = <<>>
                 /\ obstaclesAtStation' = NewWeakSet(obstaclesAtStation)
                 /\ UNCHANGED violated
            ELSE /\ queries' = {}
                 /\ UNCHANGED <<messages, rangeStart, rangeKeyFrames, obstaclesAtStation, violated>>
       ELSE /\ rangeStart' = RangeStart(rangeStart, station)
            /\ rangeKeyFrames' = KeyFrames(rangeKeyFrames, station, objectStation)
            /\ queries' = {}
            /\ violated' = violated \cup {<<NoObject, a, station, objectStation,
                                            {obj \in probes[Len(probes)][3] : AlignmentObstacle(obj)}>>}
            /\ UNCHANGED <<messages, obstaclesAtStation>>
    /\ PassesFollowed
    /\ station' = NextStation(station)
    /\ Elapse
    /\ objectStation' = 0
    /\ probes' = <<>>
    /\ pc' = "station"
    /\ UNCHANGED <<env, utils, cancelled, diagnostics, a, o, hasObstacles,
                   rangeEnd, t0, progress, outOfView, yields>>

\* the range still open when the station loop ends, closed as the ranges
\* within the loop are: at the station variable
AlignmentFinalAtStation ==
    /\ sweep = "alignment"
    /\ pc = "final"
    /\ messages' = EmitFinal(messages, rangeStart,
                       AlignmentDiagnostic(rangeStart, station, rangeKeyFrames,
                                           obstaclesAtStation, "length"))
    /\ queries' = IF rangeStart >= 0 THEN MessageQueries(rangeStart, station) ELSE {}
    /\ pc' = "alignments"
    /\ UNCHANGED <<env, utils, cancelled, probes, diagnostics, a, o, station, objectStation,
                   hasObstacles, rangeStart, rangeEnd, rangeKeyFrames,
                   obstaclesAtStation, now, t0, progress, violated, outOfView, yields>>

\* the range still open when the station loop ends
AlignmentFinal ==
    /\ sweep = "alignment"
    /\ pc = "final"
    /\ messages' = EmitFinal(messages, rangeStart,
                       AlignmentDiagnostic(rangeStart, Length, rangeKeyFrames,
                                           obstaclesAtStation, "length"))
    /\ queries' = IF rangeStart >= 0 THEN MessageQueries(rangeStart, Length) ELSE {}
    /\ pc' = "alignments"
    /\ UNCHANGED <<env, utils, cancelled, probes, diagnostics, a, o, station, objectStation,
                   hasObstacles, rangeStart, rangeEnd, rangeKeyFrames,
                   obstaclesAtStation, now, t0, progress, violated, outOfView, yields>>

\* --------------------------------------------- rule:visibility:objects
\* modelCenter: the number n of vertices summed over the meshes with geometry
RECURSIVE VertexCount(_)
VertexCount(ms) ==
    IF ms = <<>> THEN 0
    ELSE (IF Head(ms) = NoGeometry THEN 0 ELSE Head(ms)) + VertexCount(Tail(ms))

\* modelCenter(target, model): whether a centre was computed
modelCenter(model) ==
    IF VertexCount(meshes[model]) = 0
    THEN FALSE
    ELSE \E i \in 1..Len(meshes[model]) : meshes[model][i] # NoGeometry

\* the predicate handed to drawingLayer.selectableObjects by the objects rule
ObjectObstacle(obj, object) == ~(obj = object \/ ObjType(obj) # "model3d")

\* the three gates of a station: the distance, the angle of view, and the
\* object lying behind the observer
OutOfViewTwoGates(far, cosNegative, objStation, s) ==
    IF ~far THEN cosNegative ELSE far

OutOfView(far, cosNegative, objStation, s) ==
    LET gate1 == far
        gate2 == IF ~gate1 THEN cosNegative ELSE gate1
    IN IF ~gate2 THEN objStation < s ELSE gate2

\* execute(): the early returns, the filters, the two warnings
ObjectsExecute ==
    /\ sweep = "objects"
    /\ pc = "execute"
    /\ IF host # "ok"
       THEN /\ pc' = "returned"
            /\ UNCHANGED messages
       ELSE LET m1 == IF Len(alignments) = 0
                      THEN SetMessages(messages, MainDoc, <<Warning("no alignments")>>)
                      ELSE messages
                m2 == IF Len(objects) = 0
                      THEN SetMessages(m1, MainDoc, <<Warning("no objects")>>)
                      ELSE m1
            IN /\ messages' = m2
               /\ pc' = "objects"
    /\ queries' = {}
    /\ UNCHANGED <<env, utils, cancelled, probes, diagnostics, a, o, station, objectStation,
                   hasObstacles, rangeStart, rangeEnd, rangeKeyFrames,
                   obstaclesAtStation, now, t0, progress, violated, outOfView, yields>>

\* for (const object of objects) { if (!modelCenter(...)) continue; ...
ObjectsNext ==
    /\ sweep = "objects"
    /\ pc = "objects"
    /\ IF o < Len(objects)
       THEN /\ o' = o + 1
            /\ a' = 0
            /\ pc' = IF modelCenter(objects[o + 1]) THEN "alignments" ELSE "objects"
       ELSE /\ pc' = "save"
            /\ UNCHANGED <<o, a>>
    /\ queries' = {}
    /\ UNCHANGED <<env, utils, cancelled, probes, messages, diagnostics, station, objectStation,
                   hasObstacles, rangeStart, rangeEnd, rangeKeyFrames,
                   obstaclesAtStation, now, t0, progress, violated, outOfView, yields>>

\* for (const alignment of alignments) { fromWCS, the side restriction,
\* the per-pair state ... station = 0
ObjectsAlignment ==
    /\ sweep = "objects"
    /\ pc = "alignments"
    /\ IF a < Len(alignments)
       THEN \E objStation \in 0..alignments[a + 1].length, objectOffset \in {0 - 1, 0, 1} :
              /\ a' = a + 1
              /\ IF (rule.side = "LEFT" /\ objectOffset > 0)
                     \/ (rule.side = "RIGHT" /\ objectOffset < 0)
                 THEN UNCHANGED <<pc, messages, rangeStart, rangeEnd,
                                  obstaclesAtStation, station, objectStation>>
                 ELSE /\ objectStation' = objStation
                      /\ messages' = SetMessages(messages, alignments[a + 1].modelName,
                               Collection(messages, alignments[a + 1].modelName))
                      /\ rangeStart' = NoRange
                      /\ rangeEnd' = NoRange
                      /\ obstaclesAtStation' = NewWeakSet(obstaclesAtStation)
                      /\ station' = 0
                      /\ pc' = "station"
       ELSE /\ pc' = "objects"
            /\ UNCHANGED <<a, messages, rangeStart, rangeEnd, obstaclesAtStation,
                           station, objectStation>>
    /\ queries' = {}
    /\ UNCHANGED <<env, utils, cancelled, probes, diagnostics, o, hasObstacles, rangeKeyFrames,
                   now, t0, progress, violated, outOfView, yields>>

\* one pass of the station loop: the three gates, the obstacle query and
\* the range accumulation; or the end of the loop
ObjectsStation ==
    /\ sweep = "objects"
    /\ pc = "station"
    /\ IF station <= Length
       THEN \E far \in BOOLEAN, cosNegative \in BOOLEAN,
               candidates \in SUBSET DrawingObjects :
              LET gate3 == OutOfView(far, cosNegative, objectStation, station)
                  obstacles == {obj \in candidates : ObjectObstacle(obj, objects[o])}
              IN
              /\ Elapse
              /\ outOfView' = gate3
              /\ queries' = {<<"tangentAt", station>>} \cup PointQueries(station)
                                \cup (IF (gate3 \/ obstacles = {}) /\ rangeStart >= 0
                                      THEN MessageQueries(rangeStart, station) ELSE {})
              /\ IF gate3 \/ obstacles = {}
                 THEN IF rangeStart >= 0
                      THEN /\ messages' = Push(messages, ModelName,
                                  ObjectDiagnostic(rangeStart, station, rangeStart,
                                                   rangeEnd, obstaclesAtStation, "station"))
                           /\ rangeStart' = RangeReset(rangeStart)
                           /\ rangeEnd' = NoRange
                           /\ obstaclesAtStation' = NewWeakSet(obstaclesAtStation)
                           /\ UNCHANGED violated
                      ELSE UNCHANGED <<messages, rangeStart, rangeEnd,
                                       obstaclesAtStation, violated>>
                 ELSE /\ rangeStart' = RangeStart(rangeStart, station)
                      /\ rangeEnd' = station
                      /\ obstaclesAtStation' = obstaclesAtStation \cup obstacles
                      /\ violated' = violated \cup {<<objects[o], a, station, objectStation, obstacles>>}
                      /\ UNCHANGED messages
              /\ PassesFollowed
              /\ station' = NextStation(station)
              /\ UNCHANGED pc
       ELSE /\ pc' = "final"
            /\ queries' = {}
            /\ UNCHANGED <<messages, station, rangeStart, rangeEnd,
                           obstaclesAtStation, now, violated, outOfView>>
    /\ UNCHANGED <<env, utils, cancelled, probes, diagnostics, a, o, objectStation, hasObstacles,
                   rangeKeyFrames, t0, progress, yields>>

\* the range still open when the station loop ends
ObjectsFinal ==
    /\ sweep = "objects"
    /\ pc = "final"
    /\ messages' = EmitFinal(messages, rangeStart,
                       ObjectDiagnostic(rangeStart, Length, rangeStart,
                                        rangeEnd, obstaclesAtStation, "length"))
    /\ queries' = IF rangeStart >= 0 THEN MessageQueries(rangeStart, Length) ELSE {}
    /\ pc' = "alignments"
    /\ UNCHANGED <<env, utils, cancelled, probes, diagnostics, a, o, station, objectStation,
                   hasObstacles, rangeStart, rangeEnd, rangeKeyFrames,
                   obstaclesAtStation, now, t0, progress, violated, outOfView, yields>>

\* for (const uri in messages) diagnostics.set(uri, messages[uri])
Save ==
    /\ pc = "save"
    /\ diagnostics' = messages
    /\ pc' = "done"
    /\ queries' = {}
    /\ UNCHANGED <<env, utils, cancelled, probes, messages, a, o, station, objectStation,
                   hasObstacles, rangeStart, rangeEnd, rangeKeyFrames,
                   obstaclesAtStation, now, t0, progress, violated, outOfView, yields>>

Next ==
    \/ AlignmentExecute
    \/ AlignmentNext
    \/ AlignmentStation
    \/ AlignmentResume
    \/ HostCancel
    \/ AlignmentTarget
    \/ AlignmentFold
    \/ AlignmentFinal
    \/ ObjectsExecute
    \/ ObjectsNext
    \/ ObjectsAlignment
    \/ ObjectsStation
    \/ ObjectsFinal
    \/ Save

Spec == Init /\ [][Next]_vars

\* ------------------------------------------------- the steps of the rule
\* A scan of one path of the main document, its steps any number the
\* property editor accepts (a step that is not positive is tried on a path
\* of length 0); a scan under way goes on: the thread runs to the next await
\* and the timer of an await fires.
InitSteps ==
    /\ sweep \in {"alignment", "objects"}
    /\ host = "ok"
    /\ stationMs = 600
    /\ pc = "execute"
    /\ rule \in [viewPointStep : StepsAnySign, objectStep : StepsAnySign, side : {"BOTH"}]
    /\ sweep = "objects" => rule.objectStep = 1
    /\ alignments \in {s \in AlignmentConfigs : Len(s) = 1 /\ s[1].modelName = MainDoc}
    /\ (rule.viewPointStep <= 0 \/ rule.objectStep <= 0) => alignments[1].length = 0
    /\ obstacleLayers = IF sweep = "alignment" THEN Layers ELSE {}
    /\ objects = IF sweep = "objects" THEN <<"m1">> ELSE <<>>
    /\ meshes = [m \in Models |-> <<NoGeometry, 3>>]
    /\ messages = <<>>
    /\ diagnostics = <<>>
    /\ a = 0
    /\ o = 0
    /\ station = 0
    /\ objectStation = 0
    /\ hasObstacles = FALSE
    /\ rangeStart = NoRange
    /\ rangeEnd = NoRange
    /\ rangeKeyFrames = <<>>
    /\ obstaclesAtStation = {}
    /\ now = 0
    /\ t0 = 0
    /\ progress = [indeterminate |-> TRUE, percents |-> <<0, 1>>, details |-> 0]
    /\ violated = {}
    /\ outOfView = FALSE
    /\ yields = 0
    /\ cancelled = FALSE
    /\ probes = <<>>
    /\ queries = {}
    /\ wrapper = Idle
    /\ returned = Idle
    /\ search = Idle
    /\ triangle = Idle
    /\ walk = Idle
    /\ frustum = Idle
    /\ center = Idle

SpecSteps == InitSteps /\ [][Next]_vars /\ WF_vars(Next)

\* ------------------------------------------------------------- utilities
\* no rule is executing: the state of execute() while a utility is exercised
NoExecute ==
    /\ sweep = "none"
    /\ host = "ok"
    /\ stationMs = 0
    /\ pc = "done"
    /\ rule = [viewPointStep |-> 1, objectStep |-> 1, side |-> "BOTH"]
    /\ alignments = <<>>
    /\ obstacleLayers = {}
    /\ objects = <<>>
    /\ meshes = [m \in Models |-> <<NoGeometry, 3>>]
    /\ messages = <<>>
    /\ diagnostics = <<>>
    /\ a = 0
    /\ o = 0
    /\ station = 0
    /\ objectStation = 0
    /\ hasObstacles = FALSE
    /\ rangeStart = NoRange
    /\ rangeEnd = NoRange
    /\ rangeKeyFrames = <<>>
    /\ obstaclesAtStation = {}
    /\ now = 0
    /\ t0 = 0
    /\ progress = [indeterminate |-> TRUE, percents |-> <<0, 1>>, details |-> 0]
    /\ violated = {}
    /\ outOfView = FALSE
    /\ yields = 0
    /\ cancelled = FALSE
    /\ probes = <<>>
    /\ queries = {}

execution == <<env, messages, diagnostics, a, o, station, objectStation,
               hasObstacles, rangeStart, rangeEnd, rangeKeyFrames,
               obstaclesAtStation, now, t0, progress, violated, outOfView,
               yields, cancelled, probes, queries, pc>>

\* vectors
Neg(v) == [i \in DOMAIN v |-> 0 - v[i]]
Add(v, w) == [i \in DOMAIN v |-> v[i] + w[i]]
Sub(v, w) == [i \in DOMAIN v |-> v[i] - w[i]]
Mul(v, k) == [i \in DOMAIN v |-> v[i] * k]
Dot(v, w) == v[1] * w[1] + v[2] * w[2] + v[3] * w[3]
Cross(v, w) == <<v[2] * w[3] - v[3] * w[2],
                 v[3] * w[1] - v[1] * w[3],
                 v[1] * w[2] - v[2] * w[1]>>

\* ------------------------------------------- rules/alignmentWrapper.ts
\* The wrapped DwgAlignment is the host's.  Here it is a polyline of unit
\* legs running east or north, one leg per station unit; it climbs one unit
\* of elevation on every leg running north.
East == <<1, 0>>
North == <<0, 1>>
Undefined == <<>>                 \* WeakRef.deref() of a collected path: no legs
Directions == {"FORWARD", "BACKWARD"}
DwgAlignments == UNION {[1..n -> {East, North}] : n \in 1..MaxLegs}
Offsets == (0 - MaxOffset)..MaxOffset

\* the caller's target buffers: a fresh one and one used before
Targets2 == {<<0, 0>>, <<5, 7>>}
Targets3 == {<<0, 0, 0>>, <<5, 7, 9>>}

\* the point of the axis at station s: the legs run so far, east and north
DwgPoint(path, s) ==
    <<Cardinality({i \in 1..s : path[i] = East}), Cardinality({i \in 1..s : path[i] = North})>>

Leg(path, s) == IF s < Len(path) THEN path[s + 1] ELSE path[Len(path)]

DwgTangentAt(path, s) == <<Leg(path, s)[1], Leg(path, s)[2], 0>>

\* station and offset (to the left of the direction of travel) to a point
DwgToWCS(path, so) ==
    Add(DwgPoint(path, so[1]), Mul(<<0 - Leg(path, so[1])[2], Leg(path, so[1])[1]>>, so[2]))

\* a point to its station and offset: the first station that reaches it
DwgFromWCS(path, point) ==
    LET hits == {so \in (0..Len(path)) \X Offsets : DwgToWCS(path, so) = point}
    IN  CHOOSE so \in hits : \A other \in hits : so[1] <= other[1]

DwgElevationAt(path, s) == Cardinality({i \in 1..s : path[i] = North})

\* strings are sequences of tokens; the chainage label of a station
EmptyString == <<>>

DwgToPK(path, s) == <<"PK", s, "+00">>

\* constructor(alignment, direction)
AlignmentWrapper(alignment, direction) ==
    [alignment |-> alignment, direction |-> direction, length |-> Len(alignment)]

\* tangentAt(target, station)
tangentAtSameSign(w, target, s) ==
    IF w.alignment = Undefined THEN target
    ELSE IF w.direction = "FORWARD" THEN DwgTangentAt(w.alignment, s)
    ELSE DwgTangentAt(w.alignment, w.length - s)

tangentAt(w, target, s) ==
    IF w.alignment = Undefined THEN target
    ELSE IF w.direction = "FORWARD" THEN DwgTangentAt(w.alignment, s)
    ELSE Neg(DwgTangentAt(w.alignment, w.length - s))

\* toWCS(target, stationOffset)
toWCS(w, target, so) ==
    IF w.alignment = Undefined THEN target
    ELSE IF w.direction = "FORWARD" THEN DwgToWCS(w.alignment, so)
    ELSE DwgToWCS(w.alignment, <<w.length - so[1], 0 - so[2]>>)

\* fromWCS(target, point)
fromWCS(w, target, point) ==
    IF w.alignment = Undefined THEN target
    ELSE IF w.direction = "FORWARD" THEN DwgFromWCS(w.alignment, point)
    ELSE <<w.length - DwgFromWCS(w.alignment, point)[1],
           0 - DwgFromWCS(w.alignment, point)[2]>>

\* elevationAt(station)
elevationAt(w, s) ==
    IF w.alignment = Undefined THEN 0
    ELSE IF w.direction = "FORWARD" THEN DwgElevationAt(w.alignment, s)
    ELSE DwgElevationAt(w.alignment, w.length - s)

\* toPK(station) of the wrapper
WrapperToPK(w, s) ==
    IF w.alignment = Undefined THEN EmptyString
    ELSE IF w.direction = "FORWARD" THEN DwgToPK(w.alignment, s)
    ELSE DwgToPK(w.alignment, w.length - s)

\* no query made yet
NoCall == [query |-> "none"]

\* a call record: the query, the path deref() gave, the arguments, the value
Call(query, target, args, value) ==
    [query |-> query, alignment |-> wrapper.alignment, target |-> target,
     args |-> args, value |-> value]

InitWrapper ==
    /\ NoExecute
    /\ center = Idle
    /\ wrapper \in {AlignmentWrapper(al, d) : al \in DwgAlignments, d \in Directions}
    /\ returned = NoCall
    /\ search = Idle
    /\ triangle = Idle
    /\ walk = Idle
    /\ frustum = Idle

\* the path is destroyed and the weak reference cleared
Collect ==
    /\ wrapper.alignment # Undefined
    /\ wrapper' = [wrapper EXCEPT !.alignment = Undefined]
    /\ UNCHANGED <<execution, returned, search, triangle, walk, frustum, center>>

WrapperTangentAt ==
    /\ \E target \in Targets3, s \in 0..wrapper.length :
          returned' = Call("tangentAt", target, <<s>>, tangentAt(wrapper, target, s))
    /\ UNCHANGED <<execution, wrapper, search, triangle, walk, frustum, center>>

WrapperToWCS ==
    /\ \E target \in Targets2, s \in 0..wrapper.length, off \in Offsets :
          returned' = Call("toWCS", target, <<s, off>>, toWCS(wrapper, target, <<s, off>>))
    /\ UNCHANGED <<execution, wrapper, search, triangle, walk, frustum, center>>

\* the points asked for are points some station and offset of the path reaches
WrapperFromWCS ==
    /\ \E target \in Targets2, s \in 0..wrapper.length, off \in Offsets :
          LET point == IF wrapper.alignment = Undefined THEN <<s, off>>
                       ELSE DwgToWCS(wrapper.alignment, <<s, off>>)
          IN  returned' = Call("fromWCS", target, point, fromWCS(wrapper, target, point))
    /\ UNCHANGED <<execution, wrapper, search, triangle, walk, frustum, center>>

WrapperElevationAt ==
    /\ \E s \in 0..wrapper.length :
          returned' = Call("elevationAt", <<>>, <<s>>, elevationAt(wrapper, s))
    /\ UNCHANGED <<execution, wrapper, search, triangle, walk, frustum, center>>

WrapperPK ==
    /\ \E s \in 0..wrapper.length :
          returned' = Call("toPK", <<>>, <<s>>, WrapperToPK(wrapper, s))
    /\ UNCHANGED <<execution, wrapper, search, triangle, walk, frustum, center>>

NextWrapper ==
    \/ Collect
    \/ WrapperTangentAt
    \/ WrapperToWCS
    \/ WrapperFromWCS
    \/ WrapperElevationAt
    \/ WrapperPK

SpecWrapper == InitWrapper /\ [][NextWrapper]_vars

\* ------------------------------------------------- utils/binarySearch.ts
\* the comparators: the order of the numbers and the reverse order
Comparators == {"ascending", "descending"}
Compare(comparator, x, y) == IF comparator = "ascending" THEN x - y ELSE y - x

Values == 1..MaxValue
Arrays == UNION {[1..n -> Values] : n \in 0..MaxArray}

\* sortedArray is sorted under the comparator
Sorted(comparator, arr) ==
    \A i \in 1..Len(arr), j \in 1..Len(arr) : i < j => Compare(comparator, arr[i], arr[j]) <= 0

\* x >> 1 of a number that is not negative, and ~x
ShiftRight1(x) == x \div 2
Negate(x) == 0 - x
BitNot(x) == 0 - x - 1

\* sortedArray[i], the array of the source indexed from 0
At(arr, i) == arr[i + 1]

InitSearch ==
    /\ NoExecute
    /\ center = Idle
    /\ wrapper = Idle
    /\ returned = Idle
    /\ \E comparator \in Comparators, arr \in Arrays, target \in 0..(MaxValue + 1) :
          /\ Sorted(comparator, arr)
          /\ search = [comparator |-> comparator, sortedArray |-> arr, given |-> arr,
                       target |-> target, startIndex |-> 0, endIndex |-> Len(arr) - 1,
                       result |-> 0, pc |-> "while"]
    /\ triangle = Idle
    /\ walk = Idle
    /\ frustum = Idle

\* one pass of while (startIndex <= endIndex)
BinarySearchWhile ==
    /\ search.pc = "while"
    /\ search.startIndex <= search.endIndex
    /\ LET midIndex == search.startIndex + ShiftRight1(search.endIndex - search.startIndex)
           midElement == At(search.sortedArray, midIndex)
           comparisonResult == Compare(search.comparator, search.target, midElement)
       IN  search' = IF comparisonResult = 0
                     THEN [search EXCEPT !.result = midIndex, !.pc = "return"]
                     ELSE IF comparisonResult > 0
                     THEN [search EXCEPT !.startIndex = midIndex + 1]
                     ELSE [search EXCEPT !.endIndex = midIndex - 1]
    /\ UNCHANGED <<execution, wrapper, returned, triangle, walk, frustum, center>>

\* return ~startIndex
BinarySearchReturn ==
    /\ search.pc = "while"
    /\ search.startIndex > search.endIndex
    /\ search' = [search EXCEPT !.result = BitNot(search.startIndex), !.pc = "return"]
    /\ UNCHANGED <<execution, wrapper, returned, triangle, walk, frustum, center>>

NextSearch ==
    \/ BinarySearchWhile
    \/ BinarySearchReturn

SpecSearch == InitSearch /\ [][NextSearch]_vars

\* ------------------------------------- utils/intersect (frustum.ts:79-193)
\* Coordinates are whole numbers of grid units, Grid units to the length
\* unit; the tolerances are kept as the exact fractions 1 / InvEPS and
\* 1 / InvEPS2, and every comparison of the source is made on whole numbers
\* by clearing the denominators.  The segments tested have a length that is
\* a whole number of grid units, so that Math.sqrt(l2) is exact.
Sqrt(l2) == CHOOSE r \in 0..l2 : r * r = l2

\* num / den < cn / cd, for cd > 0 and den # 0
Below(num, den, cn, cd) == IF den > 0 THEN num * cd < cn * den ELSE num * cd > cn * den
Above(num, den, cn, cd) == Below(0 - num, den, 0 - cn, cd)

\* if (l2 < EPS2)
SegmentDegenerate(l2) == l2 * InvEPS2 < Grid * Grid

\* idet = dot(_v1, _v4) = dn / (l Grid^2);  if (idet < EPS)
DeterminantSmallEitherSide(dn, l) == Abs(dn) * InvEPS < Grid * Grid * l

DeterminantSmall(dn, l) == dn * InvEPS < Grid * Grid * l

\* t = det * dot(_v5, _v4) = tn l / (dn Grid);  if (t < -EPS || t > l + EPS)
OutsideTNoLength(tn, dn, l) ==
    \/ Below(InvEPS * tn * l, dn, 0 - Grid, 1)
    \/ Above(InvEPS * tn * l, dn, Grid, 1)

OutsideT(tn, dn, l) ==
    \/ Below(InvEPS * tn * l, dn, 0 - Grid, 1)
    \/ Above(InvEPS * tn * l, dn, InvEPS * l + Grid, 1)

\* u = un / dn;  if (u < -EPS || u > 1 + EPS)
OutsideU(un, dn) ==
    \/ Below(un, dn, 0 - 1, InvEPS)
    \/ Above(un, dn, InvEPS + 1, InvEPS)

\* v = vn / dn;  if (v < -EPS || v > 1 + EPS || u + v > 1 + EPS)
OutsideV(un, vn, dn) ==
    \/ Below(vn, dn, 0 - 1, InvEPS)
    \/ Above(vn, dn, InvEPS + 1, InvEPS)
    \/ Above(un + vn, dn, InvEPS + 1, InvEPS)

\* the numerators of idet, t, u and v
DetNum(sa, sb, ta, tb, tc) == Dot(Sub(sa, sb), Cross(Sub(tb, ta), Sub(tc, ta)))
TNum(sa, sb, ta, tb, tc) == Dot(Sub(sa, ta), Cross(Sub(tb, ta), Sub(tc, ta)))
UNum(sa, sb, ta, tb, tc) == Dot(Sub(sa, ta), Cross(Sub(tc, ta), Sub(sa, sb)))
VNum(sa, sb, ta, tb, tc) == Dot(Sub(sa, ta), Cross(Sub(sa, sb), Sub(tb, ta)))

segmentIntersectsTriangle(sa, sb, ta, tb, tc) ==
    LET l2 == Dot(Sub(sa, sb), Sub(sa, sb))
        l == Sqrt(l2)
        dn == DetNum(sa, sb, ta, tb, tc)
    IN  IF SegmentDegenerate(l2) THEN FALSE
        ELSE IF DeterminantSmall(dn, l) THEN FALSE
        ELSE IF OutsideT(TNum(sa, sb, ta, tb, tc), dn, l) THEN FALSE
        ELSE IF OutsideU(UNum(sa, sb, ta, tb, tc), dn) THEN FALSE
        ELSE IF OutsideV(UNum(sa, sb, ta, tb, tc), VNum(sa, sb, ta, tb, tc), dn) THEN FALSE
        ELSE TRUE

\* the vertices: multiples of three grid units, so that the centroid of a
\* triangle is a grid point
Vertices == {<<3 * i, 3 * j, 3 * k>> : i \in 0..MaxSide, j \in 0..MaxSide, k \in 0..1}
Axes == {<<1, 0, 0>>, <<0, 1, 0>>, <<0, 0, 1>>}
Reach == (0 - MaxReach)..MaxReach

\* the centroid of a triangle of Vertices
Centroid(ta, tb, tc) ==
    <<(ta[1] + tb[1] + tc[1]) \div 3, (ta[2] + tb[2] + tc[2]) \div 3,
      (ta[3] + tb[3] + tc[3]) \div 3>>

\* the points the segments tested pass through: the centroid, a vertex and
\* a point beside the triangle
Anchors(ta, tb, tc) ==
    {Centroid(ta, tb, tc), ta, Add(Centroid(ta, tb, tc), <<3, 3, 0>>)}

InitTriangle ==
    /\ NoExecute
    /\ center = Idle
    /\ wrapper = Idle
    /\ returned = Idle
    /\ search = Idle
    /\ \E tb \in Vertices, tc \in Vertices, axis \in Axes, k \in Reach, m \in Reach :
          \E anchor \in Anchors(<<0, 0, 0>>, tb, tc) :
             triangle = [sa |-> Add(anchor, Mul(axis, k)), sb |-> Add(anchor, Mul(axis, m)),
                         ta |-> <<0, 0, 0>>, tb |-> tb, tc |-> tc,
                         result |-> FALSE, pc |-> "call"]
    /\ walk = Idle
    /\ frustum = Idle

SegmentIntersectsTriangle ==
    /\ triangle.pc = "call"
    /\ triangle' = [triangle EXCEPT
          !.result = segmentIntersectsTriangle(triangle.sa, triangle.sb,
                                               triangle.ta, triangle.tb, triangle.tc),
          !.pc = "return"]
    /\ UNCHANGED <<execution, wrapper, returned, search, walk, frustum, center>>

NextTriangle == SegmentIntersectsTriangle

SpecTriangle == InitTriangle /\ [][NextTriangle]_vars

\* ------------------------------------------ modelIntersectsSegment
\* geometry.vertices and geometry.indices of the meshes: two triangles on
\* the same three vertices, one wound each way
GeometryVertices == <<0, 0, 0, 6, 0, 0, 0, 6, 0>>
GeometryIndices == <<0, 1, 2, 0, 2, 1>>

\* the vertex at position n (0, 1, 2) of a triangle: vertices[indices[t3 + n] * 3 ...]
Vertex(tri, n) ==
    LET i3 == At(GeometryIndices, tri * 3 + n) * 3
    IN  <<At(GeometryVertices, i3), At(GeometryVertices, i3 + 1), At(GeometryVertices, i3 + 2)>>

\* a mesh: has it geometry, has the geometry a spatial structure, and the
\* triangles spatial.walkSegment offers for the segment, in its order
MeshKinds ==
    {[geometry |-> FALSE, spatial |-> FALSE, candidates |-> <<>>],
     [geometry |-> TRUE, spatial |-> FALSE, candidates |-> <<>>]}
    \cup {[geometry |-> TRUE, spatial |-> TRUE, candidates |-> c] :
             c \in UNION {[1..n -> {0, 1}] : n \in 0..MaxCandidates}}

\* the inverse of model.matrix: the model is where it was built, or has been
\* moved, and Math3d.mat4.mulv3 moves a point back
Inverses == {<<0, 0, 0>>, <<0, 0, 3>>}
mulv3(inverse, point) == Add(point, inverse)

\* the callback of walkSegment keeps the first hit
CallbackKeepsLast(intersects, hit) == hit

Callback(intersects, hit) == IF intersects THEN intersects ELSE hit

InitWalk ==
    /\ NoExecute
    /\ center = Idle
    /\ wrapper = Idle
    /\ returned = Idle
    /\ search = Idle
    /\ triangle = Idle
    /\ \E ms \in UNION {[1..n -> MeshKinds] : n \in 0..MaxMeshes}, inverse \in Inverses :
          walk = [meshes |-> ms, v7 |-> mulv3(inverse, <<2, 2, 2>>),
                  v8 |-> mulv3(inverse, <<2, 2, 0 - 2>>),
                  id |-> 0, k |-> 0, intersects |-> FALSE, tests |-> 0,
                  result |-> FALSE, pc |-> "for"]
    /\ frustum = Idle

\* for (const id in meshes): the next mesh, skipped without geometry or
\* spatial structure; return false after the last
WalkMesh ==
    /\ walk.pc = "for"
    /\ IF walk.id < Len(walk.meshes)
       THEN LET mesh == walk.meshes[walk.id + 1] IN
            IF ~mesh.geometry \/ ~mesh.spatial
            THEN walk' = [walk EXCEPT !.id = walk.id + 1]
            ELSE walk' = [walk EXCEPT !.id = walk.id + 1, !.k = 0,
                                      !.intersects = FALSE, !.pc = "walkSegment"]
       ELSE walk' = [walk EXCEPT !.result = FALSE, !.pc = "return"]
    /\ UNCHANGED <<execution, wrapper, returned, search, triangle, frustum, center>>

\* spatial.walkSegment calls back with its next triangle
WalkTriangle ==
    /\ walk.pc = "walkSegment"
    /\ walk.k < Len(walk.meshes[walk.id].candidates)
    /\ LET tri == walk.meshes[walk.id].candidates[walk.k + 1]
           hit == segmentIntersectsTriangle(walk.v7, walk.v8,
                      Vertex(tri, 0), Vertex(tri, 1), Vertex(tri, 2))
       IN  walk' = [walk EXCEPT !.k = walk.k + 1,
                                !.intersects = Callback(walk.intersects, hit),
                                !.tests = IF walk.intersects THEN walk.tests
                                          ELSE walk.tests + 1]
    /\ UNCHANGED <<execution, wrapper, returned, search, triangle, frustum, center>>

\* walkSegment is done: if (intersects) return true
WalkDone ==
    /\ walk.pc = "walkSegment"
    /\ walk.k = Len(walk.meshes[walk.id].candidates)
    /\ walk' = IF walk.intersects
               THEN [walk EXCEPT !.result = TRUE, !.pc = "return"]
               ELSE [walk EXCEPT !.pc = "for"]
    /\ UNCHANGED <<execution, wrapper, returned, search, triangle, frustum, center>>

NextWalk ==
    \/ WalkMesh
    \/ WalkTriangle
    \/ WalkDone

SpecWalk == InitWalk /\ [][NextWalk]_vars

\* ----------------------------------- utils/frustum.ts, SegmentFrustum
\* The centerline (_a, _b) and the segments tested run along the axes of
\* the grid, so that their lengths and unit directions are whole numbers.
distance(p, q) == Sqrt(Dot(Sub(p, q), Sub(p, q)))

\* a length of len grid units is below EPS
BelowEPS(len) == len * InvEPS < Grid

\* Math3d.ray3.make(target, origin, direction)
Ray(origin, direction) == [origin |-> origin, direction |-> direction]

\* the unit vector from p to q, for p # q on a line along an axis
Unit(p, q) ==
    LET len == distance(p, q)
    IN  <<(q[1] - p[1]) \div len, (q[2] - p[2]) \div len, (q[3] - p[3]) \div len>>

\* ray(target): the centerline as a ray from _a; target is left as it was,
\* all zeros, when _a and _b are closer than EPS
ray(f) ==
    IF BelowEPS(distance(f.a_, f.b_))
    THEN Ray(<<0, 0, 0>>, <<0, 0, 0>>)
    ELSE Ray(f.a_, Unit(f.a_, f.b_))

\* Math3d.ray3.distanceToPoint: the square of the distance from the point to
\* the line of the ray
DistanceToPoint2(r, point) ==
    LET w == Sub(point, r.origin)
    IN  Dot(w, w) - Dot(w, r.direction) * Dot(w, r.direction)

\* containsPoint(point): distance < EPS
containsPoint(f, point) ==
    DistanceToPoint2(ray(f), point) * InvEPS * InvEPS < Grid * Grid

\* Math3d.ray3.closestPointToRay(segment, ray): the parameter along segment
\* of its point closest to the line of ray, for directions at right angles
closestPointToRay(segment, r) == Dot(Sub(r.origin, segment.origin), segment.direction)

\* if (0 < t || t > length) return false
OutsideSegment(t, length) == 0 < t \/ t > length

intersectSegment(f, a1, b1) ==
    LET length == distance(a1, b1) IN
    IF BelowEPS(length) THEN containsPoint(f, a1)
    ELSE LET segment == Ray(a1, Unit(a1, b1))
             t == closestPointToRay(segment, ray(f))
         IN  IF OutsideSegment(t, length) THEN FALSE
             ELSE containsPoint(f, Add(segment.origin, Mul(segment.direction, t)))

GridPoints == {<<x, y, z>> : x \in (0 - 1)..MaxReach, y \in (0 - 1)..MaxReach, z \in 0..1}

\* new SegmentFrustum(_a, _b), _a # _b, and a segment that is a point or runs
\* at right angles to the centerline
InitFrustum ==
    /\ NoExecute
    /\ center = Idle
    /\ wrapper = Idle
    /\ returned = Idle
    /\ search = Idle
    /\ triangle = Idle
    /\ walk = Idle
    /\ \E along \in Axes, n \in 1..MaxReach, p \in GridPoints, across \in Axes,
          k \in Reach, m \in Reach :
          /\ along # across \/ k = m
          /\ frustum = [a_ |-> <<0, 0, 0>>, b_ |-> Mul(along, n),
                        a |-> Add(p, Mul(across, k)), b |-> Add(p, Mul(across, m)),
                        result |-> FALSE, pc |-> "call"]

IntersectSegment ==
    /\ frustum.pc = "call"
    /\ frustum' = [frustum EXCEPT !.result = intersectSegment(frustum, frustum.a, frustum.b),
                                  !.pc = "return"]
    /\ UNCHANGED <<execution, wrapper, returned, search, triangle, walk, center>>

NextFrustum == IntersectSegment

SpecFrustum == InitFrustum /\ [][NextFrustum]_vars

\* ------------------------------------------------ rules/objects, modelCenter
\* geometry.vertices of the meshes: a large triangle and a small one, both
\* in the plane z = 0
CenterVertices == <<0, 0, 0, 6, 0, 0, 0, 6, 0, 6, 6, 0, 9, 6, 0, 6, 9, 0>>

\* geometry.indices a mesh may hold: none, either triangle, both
CenterIndices == {<<>>, <<0, 1, 2>>, <<3, 4, 5>>, <<0, 1, 2, 3, 4, 5>>}

\* a mesh: has it geometry, and the indices of the geometry
CenterMeshes ==
    {[geometry |-> FALSE, indices |-> <<>>]}
    \cup {[geometry |-> TRUE, indices |-> ix] : ix \in CenterIndices}

\* model.matrix: the model is where it was built, or has been moved
Matrices == {<<0, 0, 0>>, <<1, 0, 2>>}

\* for (let i = 0; i < indices.length; ++i) x += vertices[indices[i] * 3 + c],
\* from index i on
RECURSIVE IndexedSum(_, _, _)
IndexedSum(indices, c, i) ==
    IF i >= Len(indices) THEN 0
    ELSE At(CenterVertices, At(indices, i) * 3 + c) + IndexedSum(indices, c, i + 1)

\* a point whose coordinates are fractions of one denominator:
\* Math3d.vec3.make(target, x / n, y / n, z / n)
Make(x, y, z, n) == [num |-> <<x, y, z>>, den |-> n]

\* Math3d.mat4.mulv3(target, model.matrix, target) of such a point
mulv3q(matrix, point) ==
    [num |-> Add(point.num, Mul(matrix, point.den)), den |-> point.den]

InitCenter ==
    /\ NoExecute
    /\ wrapper = Idle
    /\ returned = Idle
    /\ search = Idle
    /\ triangle = Idle
    /\ walk = Idle
    /\ frustum = Idle
    /\ \E ms \in UNION {[1..k -> CenterMeshes] : k \in 0..MaxMeshes}, matrix \in Matrices :
          center = [meshes |-> ms, matrix |-> matrix, id |-> 0,
                    success |-> FALSE, x |-> 0, y |-> 0, z |-> 0, n |-> 0,
                    target |-> Make(0, 0, 0, 1), result |-> FALSE, pc |-> "for"]

\* for (const id in meshes): the next mesh, skipped without geometry, its
\* indexed vertices summed otherwise
CenterMesh ==
    /\ center.pc = "for"
    /\ center.id < Len(center.meshes)
    /\ LET mesh == center.meshes[center.id + 1] IN
       IF ~mesh.geometry
       THEN center' = [center EXCEPT !.id = center.id + 1]
       ELSE center' = [center EXCEPT !.id = center.id + 1,
                                     !.success = TRUE,
                                     !.x = center.x + IndexedSum(mesh.indices, 0, 0),
                                     !.y = center.y + IndexedSum(mesh.indices, 1, 0),
                                     !.z = center.z + IndexedSum(mesh.indices, 2, 0),
                                     !.n = center.n + Len(mesh.indices)]
    /\ UNCHANGED <<execution, wrapper, returned, search, triangle, walk, frustum>>

\* if (n === 0) return false; make, mulv3, return success
CenterReturn ==
    /\ center.pc = "for"
    /\ center.id = Len(center.meshes)
    /\ center' = IF center.n = 0
                 THEN [center EXCEPT !.result = FALSE, !.pc = "return"]
                 ELSE [center EXCEPT
                         !.target = mulv3q(center.matrix,
                                           Make(center.x, center.y, center.z, center.n)),
                         !.result = center.success, !.pc = "return"]
    /\ UNCHANGED <<execution, wrapper, returned, search, triangle, walk, frustum>>

NextCenter ==
    \/ CenterMesh
    \/ CenterReturn

SpecCenter == InitCenter /\ [][NextCenter]_vars

\* ------------------------------------------------------------ properties
\* the stations the station loop of a path samples
Sampled(al) == {s \in 0..alignments[al].length : s % rule.viewPointStep = 0}

\* the violation ranges emitted so far, as <<document, index>>
EmittedIn(msgs) == {di \in UNION {{d} \X (1..Len(msgs[d])) : d \in DOMAIN msgs} :
                      msgs[di[1]][di[2]].severity = "Error"}

Emitted == EmittedIn(messages)

\* the warnings of document d
WarningsIn(msgs, d) ==
    {i \in 1..Len(Collection(msgs, d)) : msgs[d][i].severity = "Warning"}

Rec(di) == messages[di[1]][di[2]]

\* the object a range was emitted for
RecObject(r) == IF sweep = "objects" THEN r.object ELSE NoObject

Violating(k, al, s) == \E v \in violated : v[1] = k /\ v[2] = al /\ v[3] = s

\* the sweep of path al for object k has ended and its last range is emitted
Swept(k, al) ==
    IF sweep = "alignment"
    THEN a > al \/ (a = al /\ pc \in {"alignments", "save", "done"})
    ELSE \E i \in 1..Len(objects) :
           /\ objects[i] = k
           /\ \/ o > i
              \/ o = i /\ a > al
              \/ o = i /\ a = al /\ pc \in {"alignments", "objects", "save", "done"}

\* the bounds a record reports: the rangeStart and rangeEnd fields of a
\* path-to-object record; a path-to-path record has the two chainages of its
\* message only
RecStart(r) == IF sweep = "objects" THEN r.rangeStart ELSE r.from

RecEnd(r) == IF sweep = "objects" THEN r.rangeEnd ELSE r.to

\* C1, as stated: every sampled station s with start <= s <= end of an
\* emitted range, start and end being the bounds its record reports, is a
\* station at which a violation was detected.
C1_ClosedRangeViolated ==
    \A di \in Emitted : \A s \in Sampled(Rec(di).alignment) :
        (RecStart(Rec(di)) <= s /\ s <= RecEnd(Rec(di)))
            => Violating(RecObject(Rec(di)), Rec(di).alignment, s)

\* C1, amended: the end a path-to-path record reports, and the second
\* chainage of the message of either sweep, is the station that closed the
\* range: every sampled station s with start <= s < end is a station at
\* which a violation was detected, and the end station is one too when the
\* range was closed by the end of the path and is not when it was closed by
\* a station; every sampled station within rangeStart..rangeEnd of a
\* path-to-object record is a station at which a violation was detected.
C1_RangeStationsViolated ==
    \A di \in Emitted :
        LET r == Rec(di) IN
        /\ r.from <= r.to
        /\ \A s \in Sampled(r.alignment) :
             /\ (r.from <= s /\ s < r.to) => Violating(RecObject(r), r.alignment, s)
             /\ (r.closedBy = "length" /\ r.from <= s /\ s <= r.to)
                    => Violating(RecObject(r), r.alignment, s)
             /\ (r.closedBy = "station" /\ s = r.to)
                    => ~Violating(RecObject(r), r.alignment, s)
             /\ (sweep = "objects" /\ r.rangeStart <= s /\ s <= r.rangeEnd)
                    => Violating(RecObject(r), r.alignment, s)

\* a range of two violating stations closed by a third station, and a range
\* closed by the end of the path
C1_Witness ==
    /\ pc = "done"
    /\ \E di \in Emitted : Rec(di).closedBy = "station" /\ Rec(di).to >= Rec(di).from + 2
    /\ \E di \in Emitted : Rec(di).closedBy = "length"

\* C2: once the sweep of a path has ended, every station of the path at
\* which a violation was detected lies within an emitted range of that path.
C2_NoViolationLost ==
    \A v \in violated :
        Swept(v[1], v[2]) =>
            \E di \in Emitted :
                /\ Rec(di).alignment = v[2]
                /\ RecObject(Rec(di)) = v[1]
                /\ Rec(di).from <= v[3] /\ v[3] <= Rec(di).to

\* violations at station 0 and at the last sampled station of a path, with a
\* station without violation between them
C2_Witness ==
    /\ pc = "done"
    /\ \E al \in 1..Len(alignments), k \in Models \cup {NoObject} :
         LET last == CHOOSE s \in Sampled(al) : \A t \in Sampled(al) : t <= s IN
         /\ Violating(k, al, 0)
         /\ Violating(k, al, last)
         /\ \E s \in Sampled(al) : ~Violating(k, al, s)

\* the ranges emitted for path al, in the order of the output
RangesOf(al) ==
    SelectSeq(Collection(messages, alignments[al].modelName),
              LAMBDA r : r.severity = "Error" /\ r.alignment = al)

\* C3: in the path-to-path sweep the ranges emitted for one path do not
\* overlap and are in ascending order of their start station.
C3_RangesDisjointAscending ==
    sweep = "alignment" =>
        \A al \in 1..Len(alignments) :
            LET R == RangesOf(al) IN
            \A i \in 1..Len(R), j \in 1..Len(R) :
                /\ R[i].from <= R[i].to
                /\ i < j => R[i].to < R[j].from

\* a path with two ranges
C3_Witness ==
    /\ sweep = "alignment"
    /\ pc = "done"
    /\ \E al \in 1..Len(alignments) : Len(RangesOf(al)) >= 2

\* the ranges emitted for path al and object k, in the order of the output
RangesOfPair(k, al) ==
    SelectSeq(Collection(messages, alignments[al].modelName),
              LAMBDA r : r.severity = "Error" /\ r.alignment = al /\ r.object = k)

\* C4, as stated: in the path-to-object sweep the ranges emitted for one
\* path, over all the objects tested against it, do not overlap and are in
\* ascending order of their start station.
C4_PathRangesDisjointAscending ==
    sweep = "objects" =>
        \A al \in 1..Len(alignments) :
            LET R == RangesOf(al) IN
            \A i \in 1..Len(R), j \in 1..Len(R) :
                i < j => RecEnd(R[i]) < RecStart(R[j])

\* C4, amended: in the path-to-object sweep the ranges emitted for one path
\* and one object do not overlap and are in ascending order of their start
\* station.
C4_PairRangesDisjointAscending ==
    sweep = "objects" =>
        \A al \in 1..Len(alignments), k \in Models :
            LET R == RangesOfPair(k, al) IN
            \A i \in 1..Len(R), j \in 1..Len(R) :
                /\ R[i].rangeStart <= R[i].rangeEnd
                /\ R[i].rangeEnd <= R[i].to
                /\ R[i].from = R[i].rangeStart
                /\ i < j => R[i].to < R[j].from

\* a pair of an object and a path with two ranges
C4_Witness ==
    /\ sweep = "objects"
    /\ pc = "done"
    /\ \E al \in 1..Len(alignments), k \in Models : Len(RangesOfPair(k, al)) >= 2

\* the number of records in the messages
RECURSIVE TotalIn(_, _)
TotalIn(msgs, D) ==
    IF D = {} THEN 0
    ELSE LET d == CHOOSE x \in D : TRUE IN Len(msgs[d]) + TotalIn(msgs, D \ {d})

Total(msgs) == TotalIn(msgs, DOMAIN msgs)

Last(seq) == seq[Len(seq)]

\* a pass of the station loop of the objects rule is about to be made
ObjectsPass == sweep = "objects" /\ pc = "station" /\ station <= Length

RangeViolations(r) ==
    {v \in violated :
        /\ v[2] = r.alignment
        /\ r.from <= v[3]
        /\ v[3] < r.to \/ (r.closedBy = "length" /\ v[3] <= r.to)}

\* C6, as stated: a range of the path-to-path sweep whose blocking target
\* station is the same at every violating station carries exactly one
\* keyframe, and no two consecutive keyframes of a record have target
\* stations less than 0.01 apart.
C6_OneKeyFramePerTarget ==
    sweep = "alignment" =>
        \A di \in Emitted :
            LET r == Rec(di)
                kf == r.keyFrames
            IN /\ Cardinality({v[4] : v \in RangeViolations(r)}) = 1 => Len(kf) = 1
               /\ \A i \in 1..(Len(kf) - 1) : Abs(kf[i + 1][2] - kf[i][2]) >= KeyFrameTol

\* C6, amended: a range of the path-to-path sweep whose blocking target
\* station is the same at every violating station carries one keyframe when
\* it has one violating station and otherwise exactly two, its first and its
\* last violating station, however many stations it spans; and no two
\* consecutive keyframes of a record other than its last two have target
\* stations less than 0.01 apart.
C6_KeyFramesCompressed ==
    sweep = "alignment" =>
        \A di \in Emitted :
            LET r == Rec(di)
                kf == r.keyFrames
                V == RangeViolations(r)
            IN /\ Len(kf) >= 1
               /\ Cardinality({v[4] : v \in V}) = 1 =>
                    /\ Len(kf) = IF Cardinality(V) = 1 THEN 1 ELSE 2
                    /\ \E v \in V : kf[1] = <<r.from, v[4]>>
                    /\ \E v \in V : /\ \A w \in V : w[3] <= v[3]
                                    /\ kf[Len(kf)] = <<v[3], v[4]>>
               /\ \A i \in 1..(Len(kf) - 2) : Abs(kf[i + 1][2] - kf[i][2]) >= KeyFrameTol

\* a range of three violating stations with one target station
C6_Witness ==
    /\ sweep = "alignment"
    /\ \E di \in Emitted :
         /\ Cardinality(RangeViolations(Rec(di))) >= 3
         /\ Cardinality({v[4] : v \in RangeViolations(Rec(di))}) = 1
         /\ Len(Rec(di).keyFrames) = 2

\* a pass of the station loop folds its station into the range
StationPass == (sweep = "alignment" /\ pc = "fold") \/ ObjectsPass

\* C7: a range still open when the station loop of a path ends is emitted
\* once, closed at the length of the path; within the loop a range is emitted
\* at the first station without violation after it was opened, closed at
\* that station; and nothing is emitted while no range is open; in both
\* sweeps.
C7_EmittedOnClose ==
    [][pc # "execute" =>
          IF rangeStart >= 0 /\ (pc = "final" \/ (StationPass /\ violated' = violated))
          THEN /\ Total(messages') = Total(messages) + 1
               /\ Last(messages'[ModelName]).severity = "Error"
               /\ Last(messages'[ModelName]).alignment = a
               /\ Last(messages'[ModelName]).from = rangeStart
               /\ Last(messages'[ModelName]).to = IF pc = "final" THEN Length ELSE station
               /\ pc # "final" => rangeStart' = NoRange
          ELSE Total(messages') = Total(messages)]_vars

\* the station loop has ended with a range open, after another range of the
\* same path was closed by a station, and the open range is emitted
C7_Witness ==
    /\ pc = "alignments"
    /\ a >= 1
    /\ rangeStart >= 0
    /\ \E di \in Emitted : Rec(di).alignment = a /\ Rec(di).closedBy = "station"
    /\ \E di \in Emitted : /\ Rec(di).alignment = a
                           /\ Rec(di).closedBy = "length"
                           /\ Rec(di).from = rangeStart
                           /\ Rec(di).to = Length

\* C8: in the path-to-path scan, when no obstacle layer matches the obstacle
\* filter, the output holds exactly one warning, in the document of the
\* drawing, and no violation range for any path.
C8_NoObstacleLayers ==
    (sweep = "alignment" /\ obstacleLayers = {} /\ pc \notin {"execute", "returned"}) =>
        /\ Cardinality(WarningsIn(messages, MainDoc)) = 1
        /\ \A d \in Docs \ {MainDoc} : WarningsIn(messages, d) = {}
        /\ Emitted = {}
        /\ pc = "done" =>
             /\ Cardinality(WarningsIn(diagnostics, MainDoc)) = 1
             /\ \A d \in Docs \ {MainDoc} : WarningsIn(diagnostics, d) = {}
             /\ EmittedIn(diagnostics) = {}

\* a scan without obstacle layers of two paths with stations to test, one of
\* them in the document of the drawing
C8_Witness ==
    /\ sweep = "alignment"
    /\ obstacleLayers = {}
    /\ pc = "done"
    /\ Len(alignments) = 2
    /\ alignments[1].modelName = MainDoc
    /\ \A al \in 1..2 : alignments[al].length >= 1
    /\ Len(diagnostics[MainDoc]) = 1

\* the messages of the warnings of document d
WarningTexts(msgs, d) == {msgs[d][i].message : i \in WarningsIn(msgs, d)}

\* C9, its last part: when the path-to-object scan finds neither a path nor
\* an object, the output reports both conditions.
C9_BothMissingReported ==
    (sweep = "objects" /\ pc = "done" /\ Len(alignments) = 0 /\ Len(objects) = 0) =>
        {"no alignments", "no objects"} \subseteq WarningTexts(diagnostics, MainDoc)

\* C10, as stated: both sweeps have a yield point in the station loop: a
\* pass that starts more than a second after the last suspension, or after
\* the start of the scan when there was none, suspends first.
C10_BothSweepsYield ==
    [][(pc = "station" /\ station <= Length /\ now - t0 > YieldPeriodMs)
          => pc' = "suspended"]_vars

\* C10, amended: the path-to-path sweep has a yield point in its station
\* loop: a pass that starts more than a second after the last suspension
\* suspends first, reporting the fraction and the chainage of its station,
\* and resumes at the same station with the range start, the keyframes and
\* the obstacle set as they were; the path-to-object sweep has no yield point
\* and reports no progress.
C10_AlignmentSweepYields ==
    [][/\ (sweep = "alignment" /\ pc = "station" /\ station <= Length
              /\ now - t0 > YieldPeriodMs) =>
            /\ pc' = "suspended"
            /\ progress'.percents = <<station * 100, Length>>
            /\ progress'.details = toPK(station)
            /\ t0' = now
            /\ <<station, rangeStart, rangeKeyFrames, obstaclesAtStation, messages>>'
                  = <<station, rangeStart, rangeKeyFrames, obstaclesAtStation, messages>>
       /\ pc = "suspended" =>
            /\ pc' \in {"suspended", "target"}
            /\ <<station, rangeStart, rangeKeyFrames, obstaclesAtStation, messages>>'
                  = <<station, rangeStart, rangeKeyFrames, obstaclesAtStation, messages>>
       /\ sweep = "objects" => (pc' # "suspended" /\ progress' = progress)]_vars

\* the second suspension of a scan, with a range open
C10_Witness ==
    /\ pc = "suspended"
    /\ yields >= 2
    /\ rangeStart >= 0
    /\ rangeKeyFrames # <<>>
    /\ obstaclesAtStation # {}
    /\ progress.details = station

\* ------------------------------------------------------------------ C11
\* C11: once the host has signalled cancellation to a scan suspended at its
\* yield point, the scan stops there: no further observer station is swept,
\* no range is pushed and nothing reaches the diagnostics collection.
C11_CancelStopsScan ==
    [][cancelled => /\ station' = station
                    /\ a' = a
                    /\ Total(messages') = Total(messages)
                    /\ diagnostics' = diagnostics]_vars

\* ------------------------------------------------------------------ C15
\* the sight line of probe i of the observer station in progress is blocked:
\* it is within the view distance and a 3D model of an obstacle layer
\* intersects it
Blocked(i) ==
    /\ ~probes[i][2]
    /\ \E obj \in probes[i][3] : ObjType(obj) = "model3d" /\ ObjLayer(obj) \in obstacleLayers

\* the target loop of the observer station has ended
TargetsDone == sweep = "alignment" /\ pc = "fold"

\* C15: when the target loop of an observer station ends, the targets tested
\* are station + objectStep, station + 2 objectStep, ... within the length,
\* none is tested after one beyond the view distance or after a blocked one,
\* the station is a violation exactly when one of them is blocked, the
\* recorded target is that (first) blocked one, and without a blocked target
\* the loop has run up to the view distance or the end of the path.
C15_ViolationIffBlockedTarget ==
    TargetsDone =>
        LET n == Len(probes) IN
        /\ \A i \in 1..n : /\ probes[i][1] = station + i * rule.objectStep
                            /\ probes[i][1] <= Length
        /\ \A i \in 1..(n - 1) : ~probes[i][2] /\ ~Blocked(i)
        /\ hasObstacles <=> \E i \in 1..n : Blocked(i)
        /\ hasObstacles => objectStation = probes[n][1]
        /\ ~hasObstacles => \/ n > 0 /\ probes[n][2]
                            \/ station + (n + 1) * rule.objectStep > Length

\* a station blocked at its second target, after a first sight line that a
\* model outside the obstacle layers intersects
C15_Witness ==
    /\ TargetsDone
    /\ hasObstacles
    /\ Len(probes) = 2
    /\ probes[1][3] # {}

\* ------------------------------------------------------------------ C12
\* the path the last query of the wrapper found behind its weak reference,
\* wrapped forward
ForwardOfCall == AlignmentWrapper(returned.alignment, "FORWARD")

\* the last query reached a live path
LiveCall == returned.query # "none" /\ returned.alignment # Undefined

\* C12: on a live path, what a BACKWARD wrapper returns for toWCS(s, o) is
\* what the FORWARD wrapper of the same path returns for (length - s, -o),
\* its tangentAt(s) is the negated FORWARD tangentAt(length - s), and every
\* query of a FORWARD wrapper returns what the wrapped path itself returns.
C12_BackwardMirrorsForward ==
    LiveCall =>
        LET fwd == ForwardOfCall
            path == returned.alignment
            args == returned.args
            q == returned.query
        IN
        /\ (wrapper.direction = "BACKWARD" /\ q = "toWCS") =>
              returned.value = toWCS(fwd, returned.target,
                                     <<fwd.length - args[1], 0 - args[2]>>)
        /\ (wrapper.direction = "BACKWARD" /\ q = "tangentAt") =>
              returned.value = Neg(tangentAt(fwd, returned.target, fwd.length - args[1]))
        /\ (wrapper.direction = "FORWARD" /\ q = "toWCS") =>
              returned.value = DwgToWCS(path, args)
        /\ (wrapper.direction = "FORWARD" /\ q = "tangentAt") =>
              returned.value = DwgTangentAt(path, args[1])
        /\ (wrapper.direction = "FORWARD" /\ q = "fromWCS") =>
              returned.value = DwgFromWCS(path, args)
        /\ (wrapper.direction = "FORWARD" /\ q = "elevationAt") =>
              returned.value = DwgElevationAt(path, args[1])
        /\ (wrapper.direction = "FORWARD" /\ q = "toPK") =>
              returned.value = DwgToPK(path, args[1])

\* a BACKWARD tangentAt on a live path whose tangent at the mirrored
\* station differs from the tangent at the station asked for
C12_Witness ==
    /\ LiveCall
    /\ wrapper.direction = "BACKWARD"
    /\ returned.query = "tangentAt"
    /\ DwgTangentAt(returned.alignment, returned.args[1])
          # DwgTangentAt(returned.alignment, wrapper.length - returned.args[1])

\* ------------------------------------------------------------------ C13
\* C13: a query made after the wrapped path was destroyed returns the zero
\* vector (tangentAt, toWCS, fromWCS), 0 (elevationAt) or the empty string
\* (toPK), whatever the caller's target buffer held.
C13_DestroyedDefaults ==
    (returned.query # "none" /\ returned.alignment = Undefined) =>
        /\ returned.query = "tangentAt" => returned.value = <<0, 0, 0>>
        /\ returned.query \in {"toWCS", "fromWCS"} => returned.value = <<0, 0>>
        /\ returned.query = "elevationAt" => returned.value = 0
        /\ returned.query = "toPK" => returned.value = EmptyString

\* ------------------------------------------------------------------ C14
\* arr with x inserted at index p (from 0)
InsertAt(arr, p, x) == SubSeq(arr, 1, p) \o <<x>> \o SubSeq(arr, p + 1, Len(arr))

\* C14: binarySearch on a sorted array returns an index at which the element
\* compares equal to the target, or a negative r whose complement p = ~r is
\* within 0..length with every element before p less than the target and
\* every element from p on greater, so that inserting the target at p keeps
\* the array sorted; the array is as it was given.
C14_IndexOrInsertionPoint ==
    LET arr == search.sortedArray
        r == search.result
        p == 0 - r - 1
        cmp == search.comparator
    IN
    search.pc = "return" =>
        /\ r >= 0 => r < Len(arr) /\ Compare(cmp, At(arr, r), search.target) = 0
        /\ r < 0 =>
              /\ 0 <= p /\ p <= Len(arr)
              /\ \A i \in 0..(p - 1) : Compare(cmp, At(arr, i), search.target) < 0
              /\ \A i \in p..(Len(arr) - 1) : Compare(cmp, At(arr, i), search.target) > 0
              /\ Sorted(cmp, InsertAt(arr, p, search.target))
        /\ arr = search.given

\* a search that ended without finding the target, whose insertion point is
\* inside the array
C14_Witness ==
    /\ search.pc = "return"
    /\ search.result < 0 - 1
    /\ 0 - search.result - 1 < Len(search.sortedArray)

\* ------------------------------------------------------------------ C16
\* the call of segmentIntersectsTriangle has returned
Tested == triangle.pc = "return"

\* the numerator of idet of the call, and of the call with the segment turned
CallDet == DetNum(triangle.sa, triangle.sb, triangle.ta, triangle.tb, triangle.tc)
CallLength == Sqrt(Dot(Sub(triangle.sa, triangle.sb), Sub(triangle.sa, triangle.sb)))

\* the segment passes through the centroid of the triangle, strictly between
\* its ends; the triangle is not degenerate and not parallel to the segment
ThroughCentroid ==
    LET c3 == Add(Add(triangle.ta, triangle.tb), triangle.tc)
        toC == Sub(c3, Mul(triangle.sa, 3))
        along == Sub(triangle.sb, triangle.sa)
    IN  /\ Cross(toC, along) = <<0, 0, 0>>
        /\ 0 < Dot(toC, along)
        /\ Dot(toC, along) < 3 * Dot(along, along)
        /\ Cross(Sub(triangle.tb, triangle.ta), Sub(triangle.tc, triangle.ta)) # <<0, 0, 0>>
        /\ CallDet # 0

\* C16 (as claimed): a segment through the centroid of a triangle is
\* reported as intersecting, whatever the size of the triangle and whichever
\* way the segment runs through it.
C16_CentroidHit == (Tested /\ ThroughCentroid) => triangle.result

\* C16 (amended): a segment through the centroid of a triangle is reported
\* as intersecting exactly when the normal (tb - ta) x (tc - ta) points
\* against the direction of travel and its component along the unit vector
\* from sb to sa is at least EPS.
C16_CentroidHitFacing ==
    (Tested /\ ThroughCentroid) =>
        (triangle.result <=> CallDet * InvEPS >= Grid * Grid * CallLength)

\* a hit through the centroid
C16_Witness == Tested /\ ThroughCentroid /\ triangle.result

\* ------------------------------------------------------------------ C17
\* C17: the test is one-sided: it is false whenever the normal has no
\* positive component against the direction of travel from sa to sb; the
\* segment and the segment turned round are never both hits; a hit becomes a
\* miss when the winding of the triangle is reversed.
C17_OneSided ==
    Tested =>
        /\ CallDet <= 0 => ~triangle.result
        /\ ~(triangle.result /\ segmentIntersectsTriangle(triangle.sb, triangle.sa,
                                    triangle.ta, triangle.tb, triangle.tc))
        /\ triangle.result => ~segmentIntersectsTriangle(triangle.sa, triangle.sb,
                                    triangle.ta, triangle.tc, triangle.tb)

\* a hit on a triangle that is not seen at right angles, by a segment that
\* does not pass through its centroid
C17_Witness ==
    /\ Tested
    /\ triangle.result
    /\ ~ThroughCentroid
    /\ triangle.tb[3] + triangle.tc[3] > 0

\* ------------------------------------------------------------------ C18
\* t, u and v of the call are within their bands
InBands ==
    /\ ~OutsideT(TNum(triangle.sa, triangle.sb, triangle.ta, triangle.tb, triangle.tc),
                 CallDet, CallLength)
    /\ ~OutsideU(UNum(triangle.sa, triangle.sb, triangle.ta, triangle.tb, triangle.tc), CallDet)
    /\ ~OutsideV(UNum(triangle.sa, triangle.sb, triangle.ta, triangle.tb, triangle.tc),
                 VNum(triangle.sa, triangle.sb, triangle.ta, triangle.tb, triangle.tc), CallDet)

\* C18: the determinant is rejected only below the tight epsilon 1e-7: a
\* segment at least sqrt(1e-7) long whose determinant is between 1e-7 and
\* 1e-3 and whose t, u, v are within their bands is a hit.
C18_TightDeterminantGuard ==
    (/\ Tested
     /\ triangle.sa # triangle.sb
     /\ CallDet * (InvEPS2 \div (Grid * Grid)) >= CallLength
     /\ CallDet * InvEPS < Grid * Grid * CallLength
     /\ InBands) => triangle.result

\* ------------------------------------------------------------------ C19
\* mesh i has geometry and a spatial structure
Usable(i) == walk.meshes[i].geometry /\ walk.meshes[i].spatial

\* candidate j of mesh i passes the segment/triangle test on the model-space
\* endpoints
Hits(i, j) ==
    LET tri == walk.meshes[i].candidates[j]
    IN  segmentIntersectsTriangle(walk.v7, walk.v8, Vertex(tri, 0), Vertex(tri, 1), Vertex(tri, 2))

\* the candidates of the usable meshes in the order they are offered, up to
\* mesh i, candidate j
Offered(i, j) ==
    {c \in UNION {{m} \X (1..Len(walk.meshes[m].candidates)) : m \in 1..Len(walk.meshes)} :
        Usable(c[1]) /\ (c[1] < i \/ (c[1] = i /\ c[2] <= j))}

AllOffered == Offered(Len(walk.meshes) + 1, 0)

\* C19: modelIntersectsSegment returns true exactly when a candidate triangle
\* of a mesh with geometry and spatial structure passes the triangle test
\* (so never for a model without mesh geometry, and whatever the order of
\* the meshes); the test is run on the candidates up to the first that
\* passes and on no other, and no mesh after that one is visited.
C19_FirstHitDecides ==
    walk.pc = "return" =>
        /\ walk.result <=> \E c \in AllOffered : Hits(c[1], c[2])
        /\ walk.result =>
              \E c \in AllOffered :
                 /\ Hits(c[1], c[2])
                 /\ \A d \in Offered(c[1], c[2] - 1) : ~Hits(d[1], d[2])
                 /\ walk.tests = Cardinality(Offered(c[1], c[2]))
                 /\ walk.id = c[1]
        /\ ~walk.result => walk.tests = Cardinality(AllOffered)

\* a hit in the first of two meshes, on a candidate followed by another
C19_Witness ==
    /\ walk.pc = "return"
    /\ walk.result
    /\ walk.id = 1
    /\ Len(walk.meshes) = 2
    /\ walk.tests < Len(walk.meshes[1].candidates)

\* ------------------------------------------------------------------ C20
\* the parameter along (a, b), from a, of its point closest to the centerline
ClosestAlong ==
    Dot(Sub(frustum.a_, frustum.a), Unit(frustum.a, frustum.b))

\* C20: for a segment (a, b) that is not a point, intersectSegment is true
\* exactly when the point of the line of (a, b) closest to the centerline
\* lies within the segment and is nearer than EPS to the centerline; so a
\* segment crossing the centerline between its ends intersects.
C20_ClosestApproach ==
    (frustum.pc = "return" /\ frustum.a # frustum.b) =>
        (frustum.result <=>
            /\ 0 <= ClosestAlong
            /\ ClosestAlong <= distance(frustum.a, frustum.b)
            /\ containsPoint(frustum, Add(frustum.a, Mul(Unit(frustum.a, frustum.b),
                                                         ClosestAlong))))

\* ------------------------------------------------------------------ C21
\* the keyframes recorded so far, each with the path it was recorded for:
\* those of the open range and those of the records emitted
KeyFramesRecorded ==
    IF sweep # "alignment" THEN {}
    ELSE {<<a, rangeKeyFrames[i]>> : i \in 1..Len(rangeKeyFrames)}
         \cup UNION {{<<Rec(di).alignment, Rec(di).keyFrames[i]>> :
                         i \in 1..Len(Rec(di).keyFrames)} : di \in Emitted}

\* every station the last step passed to a query of the path lies on the path
QueriesWithinPath == \A q \in queries : 0 <= q[2] /\ q[2] <= Length

\* every keyframe recorded holds two stations of its path
KeyFramesWithinPath ==
    \A k \in KeyFramesRecorded :
        /\ 0 <= k[2][1] /\ k[2][1] <= alignments[k[1]].length
        /\ 0 <= k[2][2] /\ k[2][2] <= alignments[k[1]].length

\* the target-station loop variable: past the end of the path only at the
\* test that ends its loop and after it, by one objectStep at most, and then
\* no obstacle was found, so that the station is recorded in no keyframe
TargetVariableBounded ==
    (sweep = "alignment" /\ pc \in {"target", "fold"}) =>
        /\ station < objectStation
        /\ objectStation <= Length + rule.objectStep
        /\ objectStation > Length => ~hasObstacles

CenterVertex(i) ==
    <<At(CenterVertices, i * 3), At(CenterVertices, i * 3 + 1), At(CenterVertices, i * 3 + 2)>>

\* twice the area of the triangle of the indices i, i + 1, i + 2 of a mesh;
\* the triangles lie in the plane z = 0
DoubleArea(indices, i) ==
    Abs(Cross(Sub(CenterVertex(At(indices, i + 1)), CenterVertex(At(indices, i))),
              Sub(CenterVertex(At(indices, i + 2)), CenterVertex(At(indices, i))))[3])

\* over the triangles of a mesh from index i on: the sum of twice the area
\* times coordinate c of the three vertices
RECURSIVE AreaTimesVertices(_, _, _)
AreaTimesVertices(indices, c, i) ==
    IF i + 2 >= Len(indices) THEN 0
    ELSE DoubleArea(indices, i)
            * (CenterVertex(At(indices, i))[c] + CenterVertex(At(indices, i + 1))[c]
                 + CenterVertex(At(indices, i + 2))[c])
         + AreaTimesVertices(indices, c, i + 3)

\* over the triangles of a mesh from index i on: the sum of twice the area
RECURSIVE AreaOf(_, _)
AreaOf(indices, i) ==
    IF i + 2 >= Len(indices) THEN 0
    ELSE DoubleArea(indices, i) + AreaOf(indices, i + 3)

RECURSIVE OverMeshes(_, _, _)
OverMeshes(ms, c, k) ==
    IF k > Len(ms) THEN 0
    ELSE (IF ~ms[k].geometry THEN 0
          ELSE IF c = 0 THEN AreaOf(ms[k].indices, 0)
          ELSE AreaTimesVertices(ms[k].indices, c, 0))
         + OverMeshes(ms, c, k + 1)

\* the model has no triangle to average
NothingToAverage(ms) == \A k \in 1..Len(ms) : ~ms[k].geometry \/ ms[k].indices = <<>>

\* C22: modelCenter fails exactly when the model has no mesh geometry to
\* average, and otherwise leaves in target the mean of the vertices of the
\* triangles of all the meshes, each triangle weighted by its area, moved to
\* world space by the matrix of the model.
C22_AreaWeightedCentre ==
    center.pc = "return" =>
        IF NothingToAverage(center.meshes)
        THEN ~center.result
        ELSE /\ center.result
             /\ \A c \in 1..3 :
                  LET weight == 3 * OverMeshes(center.meshes, 0, 1)
                      mean == OverMeshes(center.meshes, c, 1) + center.matrix[c] * weight
                  IN  center.target.num[c] * weight = mean * center.target.den

\* ------------------------------------------------------------------ C23
\* the last station of the range of a record at which a violation was detected
LastViolating(r) ==
    LET V == {s \in Sampled(r.alignment) :
                 /\ Violating(NoObject, r.alignment, s)
                 /\ r.from <= s /\ s <= r.to}
    IN  CHOOSE s \in V : \A t \in V : t <= s

EmittedKept ==
    \A di \in Emitted :
        /\ di[1] \in DOMAIN messages'
        /\ di[2] <= Len(messages'[di[1]])
        /\ messages'[di[1]][di[2]] = Rec(di)

\* the step enters the station loop of a path, or of an object and a path
PathStarts == pc \in {"alignments"} /\ pc' = "station"

\* the step emits a record and the station loop goes on
EmitsWithinLoop == EmittedIn(messages') # Emitted /\ pc' = "station"

\* the stations of the range of a record at which a violation was detected
OwnViolations(r) ==
    {v \in violated : /\ v[1] = RecObject(r)
                      /\ v[2] = r.alignment
                      /\ r.from <= v[3] /\ v[3] <= r.to}

\* a record holds the obstacles found at the violating stations of its own
\* range, and keyframes of these stations only
OwnOnly ==
    \A di \in Emitted :
        LET r == Rec(di) IN
        /\ r.obstacles = UNION {v[5] : v \in OwnViolations(r)}
        /\ sweep = "alignment" =>
              \A i \in 1..Len(r.keyFrames) :
                  \E v \in OwnViolations(r) :
                      v[3] = r.keyFrames[i][1] /\ v[4] = r.keyFrames[i][2]

\* C24: a record once emitted is not changed by the rest of the scan; after
\* each emission within the station loop and at the start of each path (of
\* each object and path) the range start is the sentinel and the keyframe
\* list and the obstacle set are empty; so every record holds keyframes and
\* obstacles of its own range only.
C24_RangesKeepTheirOwn ==
    [][/\ EmittedKept
       /\ (PathStarts \/ EmitsWithinLoop) =>
             /\ rangeStart' = NoRange
             /\ obstaclesAtStation' = {}
             /\ sweep = "alignment" => rangeKeyFrames' = <<>>
             /\ sweep = "objects" => rangeEnd' = NoRange
       /\ OwnOnly']_vars

\* two records of one path with different obstacle sets
C24_Witness ==
    /\ pc = "done"
    /\ \E di \in Emitted, dj \in Emitted :
          /\ Rec(di).alignment = Rec(dj).alignment
          /\ RecObject(Rec(di)) = RecObject(Rec(dj))
          /\ Rec(di).from < Rec(dj).from
          /\ Rec(di).obstacles # {}
          /\ Rec(dj).obstacles # {}
          /\ Rec(di).obstacles \cap Rec(dj).obstacles = {}

\* ------------------------------------------------------------------ C25
\* the scan has ended
Finished == pc \in {"done", "returned"}

PositiveSteps == rule.viewPointStep > 0 /\ rule.objectStep > 0

\* the step ends a pass of the station loop
EndsPass == pc = "fold" \/ (sweep = "objects" /\ pc = "station" /\ pc' = "station")

\* the observer station starts at 0 with each path, is on the path at each
\* pass and moves on by viewPointStep with it and with nothing else, and the
\* station loop ends at the first station beyond the path
StationsInTurn ==
    /\ (pc = "alignments" /\ pc' = "station") => station' = 0
    /\ EndsPass => /\ station <= Length
                   /\ station' = station + rule.viewPointStep
    /\ (pc = "station" /\ pc' = "final") => station > Length
    /\ (~EndsPass /\ pc' # "station") => station' = station

\* the target loop has ended: at the first sight line that is blocked, at
\* the first that is too long, or with the target station beyond the path
TargetLoopEnded ==
    (sweep = "alignment" /\ pc = "fold") =>
        LET n == Len(probes) IN
        /\ \A i \in 1..(n - 1) : ~probes[i][2] /\ ~Blocked(i)
        /\ \/ /\ hasObstacles
              /\ n > 0 /\ Blocked(n)
              /\ objectStation = probes[n][1]
           \/ /\ ~hasObstacles
              /\ n > 0 /\ probes[n][2]
           \/ /\ ~hasObstacles
              /\ objectStation > Length
              /\ n > 0 => (~probes[n][2] /\ ~Blocked(n))

\* what the claim says of steps that are positive
EndsWithPositiveSteps ==
    /\ PositiveSteps => <>Finished
    /\ [][StationsInTurn]_vars
    /\ []TargetLoopEnded

\* C25, as stated: with positive steps each sweep ends, the station loop
\* having visited 0, step, 2 * step, ... up to the length, each once and in
\* ascending order, and each target loop having ended at the first hit, at
\* the distance cutoff or beyond the length; with a step of zero or less the
\* loop of that step never ends.
C25_NonPositiveStepNeverEnds ==
    /\ EndsWithPositiveSteps
    /\ [](rule.viewPointStep <= 0 => pc # "final")
    /\ []((sweep = "alignment" /\ rule.objectStep <= 0) => pc # "fold")

\* C25, amended: with positive steps as stated; with a viewPointStep of
\* zero or less the station loop never ends; with an objectStep of zero or
\* less a target loop never ends by its test, the target station staying on
\* the path, and ends only at a hit or at the distance cutoff.
C25_SweepEnds ==
    /\ EndsWithPositiveSteps
    /\ [](rule.viewPointStep <= 0 => pc # "final")
    /\ []((sweep = "alignment" /\ rule.objectStep <= 0 /\ pc = "fold")
             => (objectStation <= Length /\ Len(probes) > 0))

\* a scan with an objectStep that is not positive has ended, a target loop
\* of it at a hit
C25_Witness ==
    /\ sweep = "alignment"
    /\ rule.objectStep <= 0
    /\ pc = "done"
    /\ violated # {}

TypeOK == pc \in {"execute", "returned", "alignments", "station", "suspended",
                  "target", "fold", "final", "objects", "save", "done"}
====
